---- MODULE Spec2Model ----
(***************************************************************************)
(* A model of halohome (src/halohome/__init__.py): the address codec, the  *)
(* packet builder, the bearer selector and the mesh bearer's send loop.    *)
(*                                                                         *)
(* Text is modelled as a sequence of one-character strings, so that        *)
(* lower(), zip() and join() act on characters as they do in Python.       *)
(***************************************************************************)
EXTENDS Integers, Sequences, FiniteSets, TLC

VARIABLES
    \* _format_mac_address: the argument, the value returned, and the number
    \* of times the function has been applied (the second time to its own
    \* result)
    mac_address, mac_result, mac_calls,
    \* the facade call entity.set_brightness / entity.set_color_temp: the
    \* entity, the method, its argument, how far the call got and the
    \* exception or the packet it produced
    entity, method, value, call_pc, call_exc, packet,
    \* LocationConnection.devices, in discovery order
    devices,
    \* _priority_devices on its own: the scan BleakScanner.discover returned,
    \* the list _priority_devices returned, and whether it has been called
    scanned_devices, priority_devices, priority_pc,
    \* LocationConnection.mesh_connection: None, or the BleakClient in use
    mesh_connection,
    \* every BleakClient whose connect() succeeded, in order of creation:
    \* its address, its place in the priority order of its connect pass,
    \* and whether its link is up (None is 0, the clients count from 1)
    clients,
    \* the coroutines running _send_packet, one per caller: where each is
    \* suspended, its locals (i, candidates, cand) and a record of its
    \* current send: the connection it started with, the scans made, whether
    \* any connect or write succeeded, and the writes of the current attempt
    tasks,
    \* how many more sends each caller makes
    calls_left,
    \* how many times csrmesh.crypto.random_seq() has been called
    seq_draws,
    \* how many more times a connect() succeeds in this run
    links_left,
    \* list_devices: what the directory service holds for the account, where
    \* the call is, the requests _make_request has issued, the auth token,
    \* the locations loaded so far (the list returned in the end), the
    \* location whose devices and groups are being gathered, and the
    \* exception that reached the caller
    directory, list_pc, requests, auth_token, locations, gather, list_exc

mac_vars == <<mac_address, mac_result, mac_calls>>

call_vars == <<entity, method, value, call_pc, call_exc, packet>>

sel_vars == <<scanned_devices, priority_devices, priority_pc>>

bearer_vars == <<mesh_connection, clients, tasks, calls_left, seq_draws, links_left>>

dir_vars == <<directory, list_pc, requests, auth_token, locations, gather, list_exc>>

vars == <<mac_address, mac_result, mac_calls,
          entity, method, value, call_pc, call_exc, packet,
          devices, scanned_devices, priority_devices, priority_pc,
          mesh_connection, clients, tasks, calls_left, seq_draws, links_left,
          directory, list_pc, requests, auth_token, locations, gather, list_exc>>

----------------------------------------------------------------------------
(* Each part of the program is checked under a specification of its own;   *)
(* the parts it does not run stay as they are before any call.             *)

\* _format_mac_address has not been called
MacIdle ==
    /\ mac_address = <<>>
    /\ mac_result = <<>>
    /\ mac_calls = 0

\* no facade call has been made
NoEntity == [kind |-> "none", avid |-> 0]

CallIdle ==
    /\ entity = NoEntity
    /\ method = "none"
    /\ value = 0
    /\ call_pc = "idle"
    /\ call_exc = "none"
    /\ packet = <<>>

----------------------------------------------------------------------------
\* _priority_devices has not been called
SelectIdle ==
    /\ scanned_devices = <<>>
    /\ priority_devices = <<>>
    /\ priority_pc = "idle"

\* self.mesh_connection = None
None == 0

\* no send has been made and no coroutine exists
BearerIdle ==
    /\ mesh_connection = None
    /\ clients = <<>>
    /\ tasks = <<>>
    /\ calls_left = <<>>
    /\ seq_draws = 0
    /\ links_left = 0

\* list_devices has not been called
DirIdle ==
    /\ directory = [credentials |-> FALSE, locations |-> <<>>]
    /\ list_pc = "idle"
    /\ requests = <<>>
    /\ auth_token = "none"
    /\ locations = <<>>
    /\ gather = [pc |-> "idle"]
    /\ list_exc = "none"

----------------------------------------------------------------------------
(* Text helpers                                                            *)

\* str.lower() on one character (the characters an address can hold)
LowerChar(c) ==
    CASE c = "A" -> "a"
      [] c = "B" -> "b"
      [] c = "C" -> "c"
      [] c = "D" -> "d"
      [] c = "E" -> "e"
      [] c = "F" -> "f"
      [] OTHER -> c

\* str.lower()
Lower(s) == [i \in 1..Len(s) |-> LowerChar(s[i])]

\* zip(iterator, iterator): consecutive pairs; an odd last character is dropped
ZipPairs(s) == [k \in 1..(Len(s) \div 2) |-> <<s[2 * k - 1], s[2 * k]>>]

\* ":".join(a + b for a, b in pairs)
RECURSIVE JoinPairs(_)
JoinPairs(pairs) ==
    IF Len(pairs) = 0 THEN <<>>
    ELSE IF Len(pairs) = 1 THEN Head(pairs)
    ELSE Head(pairs) \o <<":">> \o JoinPairs(Tail(pairs))

\* a plausible slip: the address is paired up without being lowered
FormatMacNoLower(mac) == JoinPairs(ZipPairs(mac))

\* _format_mac_address
FormatMac(mac) == JoinPairs(ZipPairs(Lower(mac)))

\* sample byte pairs of a directory address
PairSamples == <<
    <<"A", "B">>, <<"0", "f">>, <<"C", "9">>, <<"e", "7">>, <<"D", "E">>, <<"5", "a">> >>

----------------------------------------------------------------------------
(* PacketBuilder and the Entity facade                                     *)

\* a value returned, or the exception raised instead
Returned(v) == [ok |-> TRUE, val |-> v]
Raised(e) == [ok |-> FALSE, exc |-> e]

\* a plausible slip: the two bytes come out low byte first
ToBytes2Little(n) ==
    IF n \in 0..65535 THEN Returned(<<n % 256, n \div 256>>)
    ELSE Raised("OverflowError")

\* int.to_bytes(2, byteorder="big"): OverflowError outside 0..65535
ToBytes2(n) ==
    IF n \in 0..65535 THEN Returned(<<n \div 256, n % 256>>)
    ELSE Raised("OverflowError")

\* a plausible slip: out-of-range elements are truncated to their low byte
BytesOfTruncating(elems) == Returned([i \in 1..Len(elems) |-> elems[i] % 256])

\* bytes([...]): ValueError when an element is outside range(0, 256)
BytesOf(elems) ==
    IF \A i \in 1..Len(elems) : elems[i] \in 0..255 THEN Returned(elems)
    ELSE Raised("ValueError")

\* a plausible slip: the boundary address 32896 is taken for a group
IsGroupAddressInclusive(target_id) == target_id <= 32896

\* if target_id < 32896: the address is a group's
IsGroupAddress(target_id) == target_id < 32896

\* LocationConnection._create_packet
CreatePacket(target_id, noun, value_bytes) ==
    LET group_id == IF IsGroupAddress(target_id) THEN target_id ELSE 0
        device_id == IF IsGroupAddress(target_id) THEN 0 ELSE target_id
        target_bytes == ToBytes2(device_id)
        group_bytes == ToBytes2(group_id)
    IN  IF ~target_bytes.ok THEN target_bytes
        ELSE IF ~group_bytes.ok THEN group_bytes
        ELSE Returned(<<target_bytes.val[2], target_bytes.val[1], 115, 0, noun,
                        group_bytes.val[1], group_bytes.val[2], 0>>
                      \o value_bytes \o <<0, 0>>)

\* LocationConnection.set_brightness, up to its call of _send_packet: the
\* packet handed to _send_packet, or the exception raised before it
BrightnessPacket(device_id, brightness) ==
    LET value_bytes == BytesOf(<<brightness, 0, 0>>)
    IN  IF ~value_bytes.ok THEN value_bytes
        ELSE CreatePacket(device_id, 10, value_bytes.val)

\* LocationConnection.set_color_temp, up to its call of _send_packet
ColorTempPacket(device_id, color) ==
    LET color_bytes == ToBytes2(color)
    IN  IF ~color_bytes.ok THEN color_bytes
        ELSE LET value_bytes == BytesOf(<<1>> \o color_bytes.val)
             IN  IF ~value_bytes.ok THEN value_bytes
                 ELSE CreatePacket(device_id, 29, value_bytes.val)

\* how far on each side of an address boundary the sampled avids reach
AvidWindow == 2

\* avids around 0, the byte boundary, the group/device boundary 32896 and
\* the top of the 16-bit range (and past it)
AvidSample ==
    (0..AvidWindow)
    \cup ((256 - AvidWindow)..(256 + AvidWindow))
    \cup ((32896 - AvidWindow)..(32896 + AvidWindow))
    \cup ((65535 - AvidWindow)..(65535 + AvidWindow))

\* Device and Group entities of a location: the code takes any avid for both
Entities == [kind : {"Device", "Group"}, avid : AvidSample]

BrightnessSample == {-1, 0, 1, 128, 255, 256, 300}

ColorSample == {-1, 0, 255, 256, 2700, 65535, 65536}

\* the outcome of a facade call: the exception reaches the caller, or the
\* packet goes to _send_packet
CallOutcome(e, m, v, built) ==
    /\ entity' = e
    /\ method' = m
    /\ value' = v
    /\ call_pc' = IF built.ok THEN "send" ELSE "raised"
    /\ call_exc' = IF built.ok THEN "none" ELSE built.exc
    /\ packet' = IF built.ok THEN built.val ELSE <<>>

\* Entity.set_brightness -> LocationConnection.set_brightness(self.avid, ..)
SetBrightness ==
    \E e \in Entities, brightness \in BrightnessSample :
        /\ CallOutcome(e, "set_brightness", brightness,
                       BrightnessPacket(e.avid, brightness))
        /\ UNCHANGED <<mac_vars, devices, dir_vars, sel_vars, bearer_vars>>

\* Entity.set_color_temp -> LocationConnection.set_color_temp(self.avid, ..)
SetColorTemp ==
    \E e \in Entities, color \in ColorSample :
        /\ CallOutcome(e, "set_color_temp", color, ColorTempPacket(e.avid, color))
        /\ UNCHANGED <<mac_vars, devices, dir_vars, sel_vars, bearer_vars>>

PacketInit ==
    MacIdle /\ CallIdle /\ devices = <<>> /\ SelectIdle /\ BearerIdle /\ DirIdle

PacketNext == SetBrightness \/ SetColorTemp

SpecPacket == PacketInit /\ [][PacketNext]_vars

\* the 2-byte device field and group field a frame carries
DeviceField(frame) == frame[1] + 256 * frame[2]
GroupField(frame) == 256 * frame[6] + frame[7]

\* the call's argument is in the range its bytes can hold
ValueInRange ==
    IF method = "set_brightness" THEN value \in 0..255 ELSE value \in 0..65535

\* C6: for every target_avid in 0..65535 and both operations the frame is
\* [device_lo, device_hi, 115, 0, noun, group_hi, group_lo, 0, v0, v1, v2,
\* 0, 0]; below 32896 the device field is 0 and the group field is the avid,
\* from 32896 on the device field is the avid and the group field is 0; the
\* noun is 0x0A with [level, 0, 0] for brightness and 0x1D with
\* [1, hi(code), lo(code)] for colour temperature.
C6_FrameLayout ==
    (call_pc # "idle" /\ entity.avid \in 0..65535 /\ ValueInRange) =>
        LET dev == IF entity.avid < 32896 THEN 0 ELSE entity.avid
            grp == IF entity.avid < 32896 THEN entity.avid ELSE 0
            noun == IF method = "set_brightness" THEN 10 ELSE 29
            vals == IF method = "set_brightness" THEN <<value, 0, 0>>
                    ELSE <<1, value \div 256, value % 256>>
        IN  /\ call_pc = "send"
            /\ packet = <<dev % 256, dev \div 256, 115, 0, noun,
                          grp \div 256, grp % 256, 0,
                          vals[1], vals[2], vals[3], 0, 0>>

\* a frame was built for an address on each side of the boundary 32896
\* whose two bytes differ, for each operation
C6_Witness ==
    /\ call_pc = "send"
    /\ entity.avid \in {32895, 32897}
    /\ method = "set_color_temp"
    /\ value = 2700

\* C7 as stated: whatever its avid, a command sent through a Device carries
\* group bytes of zero and device bytes equal to the avid, and a command
\* sent through a Group carries device bytes of zero and group bytes equal
\* to the avid.
C7_AddressedByKind ==
    call_pc = "send" =>
        /\ entity.kind = "Device" =>
               (GroupField(packet) = 0 /\ DeviceField(packet) = entity.avid)
        /\ entity.kind = "Group" =>
               (DeviceField(packet) = 0 /\ GroupField(packet) = entity.avid)

\* C7 amended: the addressing follows the avid alone, never the entity's
\* kind. For every entity, Device or Group, with an avid in 32896..65535 the
\* command carries group bytes of zero and device bytes equal to the avid;
\* for every entity with an avid below 32896 (a Device with avid 0
\* included, whose address bytes are all zero) it carries device bytes of
\* zero and group bytes equal to the avid. So the stated property holds of
\* a Device exactly when its avid is 0 or at least 32896, and of a Group
\* exactly when its avid is below 32896.
C7_AddressedByAvid ==
    call_pc = "send" =>
        /\ entity.avid >= 32896 =>
               (GroupField(packet) = 0 /\ DeviceField(packet) = entity.avid)
        /\ entity.avid < 32896 =>
               (DeviceField(packet) = 0 /\ GroupField(packet) = entity.avid)
        /\ entity.kind = "Device" =>
               ((GroupField(packet) = 0 /\ DeviceField(packet) = entity.avid)
                    <=> (entity.avid = 0 \/ entity.avid >= 32896))
        /\ entity.kind = "Group" =>
               ((DeviceField(packet) = 0 /\ GroupField(packet) = entity.avid)
                    <=> entity.avid < 32896)

\* a command was sent through a Device whose avid is below the boundary and
\* not zero: it went out addressed as a group
C7_Witness ==
    /\ call_pc = "send"
    /\ entity.kind = "Device"
    /\ entity.avid \in 1..32895
    /\ GroupField(packet) = entity.avid

\* C9 as stated: the facade methods never fail because of the value's
\* range; an out-of-range value is truncated and the packet is built and
\* handed to the send like any other.
C9_NeverRaisesOnRange ==
    (call_pc # "idle" /\ entity.avid \in 0..65535) =>
        /\ call_pc = "send"
        /\ Len(packet) = 13

\* C9 amended: for an addressable avid (0..65535), set_brightness builds
\* and sends the packet exactly when the level is in 0..255 and
\* set_color_temp exactly when the code is in 0..65535; a level outside
\* 0..255 raises ValueError and a code outside 0..65535 raises
\* OverflowError to the caller, before any packet is built or handed to
\* the send (nothing is truncated).
C9_RaisesOnRange ==
    (call_pc # "idle" /\ entity.avid \in 0..65535) =>
        /\ ValueInRange => (call_pc = "send" /\ Len(packet) = 13)
        /\ ~ValueInRange =>
               /\ call_pc = "raised"
               /\ packet = <<>>
               /\ call_exc = IF method = "set_brightness" THEN "ValueError"
                              ELSE "OverflowError"

\* set_brightness was called with a level above 255 and raised
C9_Witness ==
    /\ method = "set_brightness"
    /\ value > 255
    /\ entity.avid \in 0..65535
    /\ call_pc = "raised"

----------------------------------------------------------------------------
(* The address codec on its own: raw directory addresses are formatted,    *)
(* and the result is formatted once more.                                  *)

\* how many of the sample byte pairs the raw addresses are drawn from
NumPairSamples == 3

BytePairs == {PairSamples[i] : i \in 1..NumPairSamples}

\* the raw 12-hex-character addresses of the directory (friendly_mac_address)
RawMacs ==
    {f[1] \o f[2] \o f[3] \o f[4] \o f[5] \o f[6] : f \in [1..6 -> BytePairs]}

MacInit ==
    /\ mac_address \in RawMacs
    /\ mac_result = <<>>
    /\ mac_calls = 0
    /\ CallIdle
    /\ devices = <<>>
    /\ SelectIdle
    /\ BearerIdle
    /\ DirIdle

\* mac_address = _format_mac_address(raw_device["friendly_mac_address"])
FormatRaw ==
    /\ mac_calls = 0
    /\ mac_result' = FormatMac(mac_address)
    /\ mac_calls' = 1
    /\ UNCHANGED <<mac_address, call_vars, devices, dir_vars, sel_vars, bearer_vars>>

\* _format_mac_address applied to an address it has already formatted
FormatAgain ==
    /\ mac_calls = 1
    /\ mac_address' = mac_result
    /\ mac_result' = FormatMac(mac_result)
    /\ mac_calls' = 2
    /\ UNCHANGED <<call_vars, devices, dir_vars, sel_vars, bearer_vars>>

MacNext == FormatRaw \/ FormatAgain

SpecMac == MacInit /\ [][MacNext]_vars

HexLower == {"0", "1", "2", "3", "4", "5", "6", "7", "8", "9",
             "a", "b", "c", "d", "e", "f"}

\* six lowercase byte pairs separated by colons
IsNormalizedMac(s) ==
    /\ Len(s) = 17
    /\ \A i \in 1..17 : IF i % 3 = 0 THEN s[i] = ":" ELSE s[i] \in HexLower

\* the address with its colons taken out
RECURSIVE StripColons(_)
StripColons(s) ==
    IF Len(s) = 0 THEN <<>>
    ELSE IF Head(s) = ":" THEN StripColons(Tail(s))
    ELSE <<Head(s)>> \o StripColons(Tail(s))

\* C10 as stated: a raw address is normalized to six colon-separated
\* lowercase byte pairs, and normalizing a normalized address returns it
\* unchanged.
C10_Idempotent ==
    /\ mac_calls = 1 => IsNormalizedMac(mac_result)
    /\ mac_calls = 2 => mac_result = mac_address

\* C10 amended: a raw 12-hex-character address is normalized to six
\* colon-separated lowercase byte pairs that spell the raw address in lower
\* case; normalizing that result again does not return it: the colons are
\* paired up like digits, giving 8 pairs (23 characters) and dropping the
\* last digit.
C10_RawOnly ==
    /\ mac_calls = 1 =>
          /\ IsNormalizedMac(mac_result)
          /\ StripColons(mac_result) = Lower(mac_address)
    /\ mac_calls = 2 =>
          /\ IsNormalizedMac(mac_address)
          /\ mac_result # mac_address
          /\ ~IsNormalizedMac(mac_result)
          /\ Len(mac_result) = 23

\* a normalized address that holds letters has been normalized again
C10_Witness ==
    /\ mac_calls = 2
    /\ \E i \in 1..17 : mac_address[i] \in {"a", "b", "c", "d", "e", "f"}
    /\ Len(mac_result) = 23

----------------------------------------------------------------------------
(* BearerSelector                                                          *)

\* sorted(scanned_devices.items(), key=lambda d: d[1][1].rssi): ascending
\* and stable, an entry going after the entries that are not stronger
RECURSIVE InsertByRssi(_, _)
InsertByRssi(d, sorted) ==
    IF Len(sorted) = 0 THEN <<d>>
    ELSE IF d.rssi < Head(sorted).rssi THEN <<d>> \o sorted
    ELSE <<Head(sorted)>> \o InsertByRssi(d, Tail(sorted))

RECURSIVE SortByRssi(_)
SortByRssi(scan) ==
    IF Len(scan) = 0 THEN <<>>
    ELSE InsertByRssi(scan[Len(scan)], SortByRssi(SubSeq(scan, 1, Len(scan) - 1)))

\* sorted_addresses.index(x): the first position, from 0, or 0 - 1 for the
\* ValueError of a missing x
RECURSIVE IndexOf(_, _)
IndexOf(seq, x) ==
    IF Len(seq) = 0 THEN 0 - 1
    ELSE IF Head(seq) = x THEN 0
    ELSE LET rest == IndexOf(Tail(seq), x)
         IN  IF rest < 0 THEN rest ELSE rest + 1

\* a plausible slip: a device missing from the scan ranks above the seen ones
PriorityUnseenFirst(sorted_addresses, device) ==
    LET index == IndexOf(sorted_addresses, device.mac_address)
    IN  IF index < 0 THEN Len(sorted_addresses) ELSE index

\* priority(device): its index in sorted_addresses, -1 on ValueError
Priority(sorted_addresses, device) ==
    IndexOf(sorted_addresses, device.mac_address)

\* sorted(self.devices, key=priority, reverse=True): descending and stable,
\* a device going after the devices whose priority is not lower
RECURSIVE InsertByPriority(_, _, _)
InsertByPriority(device, sorted, sorted_addresses) ==
    IF Len(sorted) = 0 THEN <<device>>
    ELSE IF Priority(sorted_addresses, device)
                > Priority(sorted_addresses, Head(sorted))
         THEN <<device>> \o sorted
    ELSE <<Head(sorted)>> \o InsertByPriority(device, Tail(sorted), sorted_addresses)

RECURSIVE SortByPriority(_, _)
SortByPriority(devs, sorted_addresses) ==
    IF Len(devs) = 0 THEN <<>>
    ELSE InsertByPriority(devs[Len(devs)],
                          SortByPriority(SubSeq(devs, 1, Len(devs) - 1), sorted_addresses),
                          sorted_addresses)

\* LocationConnection._priority_devices, given what the scan returned
PriorityDevices(devs, scan) ==
    LET sorted_devices == SortByRssi(scan)
        sorted_addresses ==
            [i \in 1..Len(sorted_devices) |-> Lower(sorted_devices[i].address)]
    IN  SortByPriority(devs, sorted_addresses)

\* the raw address of the k-th sample device: one byte pair, six times
RawMacOf(k) ==
    PairSamples[k] \o PairSamples[k] \o PairSamples[k]
        \o PairSamples[k] \o PairSamples[k] \o PairSamples[k]

\* the avid the directory reports for the k-th sample device
DirectoryAvid(k) == 32896 + k

\* LocationConnection.devices for a directory record of n devices
\* (_load_devices formats each address, __init__ keeps the order)
LocationDevices(n) ==
    [k \in 1..n |-> [avid |-> DirectoryAvid(k),
                      mac_address |-> FormatMac(RawMacOf(k))]]

\* the scanner reports addresses in upper case
UpperChar(c) ==
    CASE c = "a" -> "A"
      [] c = "b" -> "B"
      [] c = "c" -> "C"
      [] c = "d" -> "D"
      [] c = "e" -> "E"
      [] c = "f" -> "F"
      [] OTHER -> c

ScanAddress(mac) == [i \in 1..Len(mac) |-> UpperChar(mac[i])]

\* the address of a device in range that belongs to no location
ForeignAddress == ScanAddress(FormatMac(RawMacOf(6)))

RssiSample == {0 - 80, 0 - 60, 0 - 40}

\* the scans of at most maxlen advertisements, no address twice, over the
\* location's devices and the foreign one
ScansOf(devs, rssis, maxlen) ==
    LET addresses == {ScanAddress(devs[i].mac_address) : i \in 1..Len(devs)}
                         \cup {ForeignAddress}
        entries == [address : addresses, rssi : rssis]
    IN  {scan \in UNION {[1..n -> entries] : n \in 0..maxlen} :
            \A i, j \in 1..Len(scan) :
                i # j => scan[i].address # scan[j].address}

\* the most devices a location has when the selector is checked on its own
MaxSelectDevices == 3

\* the most advertisements a scan holds then
MaxScanLen == 3

SelectInit ==
    /\ MacIdle
    /\ CallIdle
    /\ devices \in {LocationDevices(n) : n \in 0..MaxSelectDevices}
    /\ SelectIdle
    /\ BearerIdle
    /\ DirIdle

\* await self._priority_devices()
PriorityCall ==
    /\ priority_pc = "idle"
    /\ \E scan \in ScansOf(devices, RssiSample, MaxScanLen) :
          /\ scanned_devices' = scan
          /\ priority_devices' = PriorityDevices(devices, scan)
          /\ priority_pc' = "returned"
    /\ UNCHANGED <<mac_vars, call_vars, devices, dir_vars, bearer_vars>>

SelectNext == PriorityCall

SpecSelect == SelectInit /\ [][SelectNext]_vars

\* whether the scan saw the device, and how strongly
Seen(device, scan) ==
    \E i \in 1..Len(scan) : Lower(scan[i].address) = device.mac_address

RssiOf(device, scan) ==
    LET i == CHOOSE i \in 1..Len(scan) : Lower(scan[i].address) = device.mac_address
    IN  scan[i].rssi

\* the place of a device in discovery order
PlaceOf(device, devs) == CHOOSE i \in 1..Len(devs) : devs[i] = device

\* C8: candidate selection returns a permutation of all the location's
\* devices, the scanned ones first by decreasing signal strength, the
\* unseen ones last; devices of equal rank (the unseen ones; all of them
\* when the scan sees none) keep their discovery order.
C8_PriorityOrder ==
    priority_pc = "returned" =>
        /\ Len(priority_devices) = Len(devices)
        /\ {priority_devices[i] : i \in 1..Len(priority_devices)}
               = {devices[i] : i \in 1..Len(devices)}
        /\ \A i, j \in 1..Len(priority_devices) :
               i < j =>
                  LET a == priority_devices[i]
                      b == priority_devices[j]
                  IN  /\ Seen(b, scanned_devices) => Seen(a, scanned_devices)
                      /\ (Seen(a, scanned_devices) /\ Seen(b, scanned_devices)) =>
                             RssiOf(a, scanned_devices) >= RssiOf(b, scanned_devices)
                      /\ (~Seen(a, scanned_devices) /\ ~Seen(b, scanned_devices)) =>
                             PlaceOf(a, devices) < PlaceOf(b, devices)

\* the spec's example: A at -80, B at -40 and an unseen C give [B, A, C]
C8_Witness ==
    /\ priority_pc = "returned"
    /\ devices = LocationDevices(3)
    /\ scanned_devices =
          <<[address |-> ScanAddress(devices[1].mac_address), rssi |-> 0 - 80],
            [address |-> ScanAddress(devices[2].mac_address), rssi |-> 0 - 40]>>
    /\ priority_devices = <<devices[2], devices[1], devices[3]>>

----------------------------------------------------------------------------
(* MeshBearer: LocationConnection._send_packet and _connect                *)
(*                                                                         *)
(* A coroutine runs without interruption from one await to the next, so    *)
(* there is one action per await that returns: BleakScanner.discover,      *)
(* client.connect, and the two write_gatt_char calls. Each action runs the *)
(* code up to the next await.                                              *)

\* for _ in range(3)
Attempts == 3

\* except Exception in _send_packet: every exception the transport raises,
\* and the AttributeError of None.write_gatt_char
SendCatches(e) == e \in {"BleakError", "TimeoutError", "AttributeError"}

\* except BleakError in _connect
ConnectCatches(e) == e = "BleakError"

\* what BleakScanner.discover, client.connect and write_gatt_char raise
\* when they fail
TransportErrors == {"BleakError", "TimeoutError"}

\* the most devices of the location the bearer sends through
MaxDevices == 2

\* the most sends one caller makes, one after the other
MaxSends == 2

\* the most connections that succeed in one run
MaxClients == 2

\* low = csrpacket[:20] and high = csrpacket[20:] cut here
ChunkSize == 20

\* a plausible slip: the low chunk stops one byte short
LowOfShort(csrpacket) ==
    SubSeq(csrpacket, 1, IF Len(csrpacket) < ChunkSize - 1 THEN Len(csrpacket)
                         ELSE ChunkSize - 1)

\* csrpacket[:20]: the first 20 bytes, or all of a shorter packet
LowOf(csrpacket) ==
    SubSeq(csrpacket, 1, IF Len(csrpacket) < ChunkSize THEN Len(csrpacket)
                         ELSE ChunkSize)

\* csrpacket[20:]: what follows the first 20 bytes, if anything
HighOf(csrpacket) == SubSeq(csrpacket, ChunkSize + 1, Len(csrpacket))

\* csrmesh.crypto.make_packet(self.key, seq, packet): the library is not
\* part of this program, so a byte of its result is known only by the
\* sequence number it was made with and its place, and the length n of the
\* result is whatever the library gives
MakePacket(seq, data, n) == [k \in 1..n |-> <<seq, k>>]

\* the lengths make_packet may give for a 13-byte packet: the 40 bytes of
\* the cipher's interface, and a length that leaves a short second chunk
CipherLens == {27, 40}

\* nothing written yet
NoWrite == [char |-> "none", data |-> <<>>]

\* the coroutine of a caller that has not sent yet
IdleTask ==
    [pc |-> "idle", i |-> 0, result |-> "none",
     candidates |-> <<>>, cand |-> 0,
     start_conn |-> None, scans |-> 0, ok_seen |-> FALSE,
     low |-> "none", high |-> "none", low_h |-> None, high_h |-> None,
     packet |-> <<>>, seq |-> 0, csrpacket |-> <<>>,
     low_chunk |-> <<>>, high_chunk |-> <<>>,
     low_w |-> NoWrite, high_w |-> NoWrite,
     counted |-> FALSE, connects |-> 0, writes |-> 0]

\* one more call of connect() or write_gatt_char() in this send, for a
\* caller whose calls are counted
OneMore(t, n) == IF t.counted THEN n + 1 ELSE n

\* a plausible slip: the packet is encrypted again, with a sequence number
\* of its own, for every attempt
NewAttemptEncryptsAgain(t) ==
    LET csrpacket == MakePacket(t.seq + 1, t.packet, Len(t.csrpacket))
    IN  [t EXCEPT !.low = "none", !.high = "none", !.low_h = None, !.high_h = None,
                  !.low_w = NoWrite, !.high_w = NoWrite,
                  !.seq = @ + 1, !.csrpacket = csrpacket,
                  !.low_chunk = LowOf(csrpacket), !.high_chunk = HighOf(csrpacket)]

\* the record of the attempt is cleared when the next one begins; seq,
\* csrpacket, low and high were set before the loop and stay
NewAttempt(t) ==
    [t EXCEPT !.low = "none", !.high = "none", !.low_h = None, !.high_h = None,
              !.low_w = NoWrite, !.high_w = NoWrite]

\* await self.mesh_connection.write_gatt_char(CHARACTERISTIC_LOW, low)
IssueLow(t, conn) ==
    [t EXCEPT !.pc = "write_low", !.low = "sent", !.low_h = conn,
              !.low_w = [char |-> "LOW", data |-> t.low_chunk],
              !.writes = OneMore(t, @)]

\* await self.mesh_connection.write_gatt_char(CHARACTERISTIC_HIGH, high)
IssueHigh(t, conn) ==
    [t EXCEPT !.pc = "write_high", !.high = "sent", !.high_h = conn,
              !.high_w = [char |-> "HIGH", data |-> t.high_chunk],
              !.writes = OneMore(t, @)]

\* client = BleakClient(device.mac_address, ..); await client.connect(),
\* for the candidate at place cand of the priority order
IssueConnect(t, order, cand) ==
    [t EXCEPT !.pc = "connect", !.candidates = order, !.cand = cand,
              !.connects = OneMore(t, @)]

\* _connect is left, by return or by an exception: its locals are gone
LeaveConnect(t) == [t EXCEPT !.candidates = <<>>, !.cand = 0]

\* a plausible slip: every attempt connects anew, whatever mesh_connection is
BeginAlwaysConnects(t, conn) ==
    [task |-> [t EXCEPT !.pc = "scan", !.scans = @ + 1], conn |-> conn]

\* the top of the loop body: if self.mesh_connection is None, _connect()
\* (which first awaits the scan), else straight to the low write
Begin(t, conn) ==
    IF conn = None
    THEN [task |-> [t EXCEPT !.pc = "scan", !.scans = @ + 1], conn |-> conn]
    ELSE [task |-> IssueLow(t, conn), conn |-> conn]

\* a plausible slip: the handler leaves mesh_connection as it is
ExceptKeepsConnection(t, conn, e) ==
    IF t.i + 1 = Attempts
    THEN [task |-> [LeaveConnect(t) EXCEPT !.i = @ + 1, !.pc = "done",
                                           !.result = "False"],
          conn |-> conn]
    ELSE Begin(NewAttempt([LeaveConnect(t) EXCEPT !.i = @ + 1]), conn)

\* a plausible slip: the loop runs once more than range(3)
ExceptOnceMore(t, conn, e) ==
    IF t.i = Attempts
    THEN [task |-> [LeaveConnect(t) EXCEPT !.i = @ + 1, !.pc = "done",
                                           !.result = "False"],
          conn |-> None]
    ELSE Begin(NewAttempt([LeaveConnect(t) EXCEPT !.i = @ + 1]), None)

\* a plausible slip: a failed attempt returns False at once, without retry
ExceptNoRetry(t, conn, e) ==
    [task |-> [LeaveConnect(t) EXCEPT !.i = @ + 1, !.pc = "done",
                                      !.result = "False"],
     conn |-> None]

\* an exception inside the try of _send_packet: caught, it drops the
\* connection and the loop goes on (return False after the last attempt);
\* not caught, it reaches the caller
Except(t, conn, e) ==
    IF SendCatches(e)
    THEN IF t.i + 1 = Attempts
         THEN [task |-> [LeaveConnect(t) EXCEPT !.i = @ + 1, !.pc = "done",
                                                !.result = "False"],
               conn |-> None]
         ELSE Begin(NewAttempt([LeaveConnect(t) EXCEPT !.i = @ + 1]), None)
    ELSE [task |-> [LeaveConnect(t) EXCEPT !.pc = "done", !.result = "raised"],
          conn |-> conn]

\* _connect has returned: self.mesh_connection.write_gatt_char(LOW, ..) is
\* evaluated, an AttributeError when mesh_connection is still None
AfterConnect(t, conn) ==
    IF conn = None THEN Except(t, conn, "AttributeError")
    ELSE [task |-> IssueLow(LeaveConnect(t), conn), conn |-> conn]

\* the low write has returned: self.mesh_connection.write_gatt_char(HIGH, ..)
\* is evaluated on whatever mesh_connection is now
AfterLow(t, conn) ==
    IF conn = None THEN Except(t, conn, "AttributeError")
    ELSE [task |-> IssueHigh(t, conn), conn |-> conn]

\* a plausible slip: True is returned whatever the high write did
AfterHighIgnoresFailure(t, conn, outcome) ==
    [task |-> [t EXCEPT !.pc = "done", !.result = "True"], conn |-> conn]

\* the high write has returned: return True, or the exception handler
AfterHigh(t, conn, outcome) ==
    IF outcome = "ok"
    THEN [task |-> [t EXCEPT !.pc = "done", !.result = "True"], conn |-> conn]
    ELSE Except(t, conn, outcome)

\* a client whose link is down and that nothing holds any more
Freed == [mac_address |-> <<>>, rank |-> 0, connected |-> FALSE, failed |-> TRUE]

\* the client a coroutine is awaiting a write on, if any
Awaited(t) ==
    IF t.pc = "write_low" THEN t.low_h
    ELSE IF t.pc = "write_high" THEN t.high_h
    ELSE None

\* Python frees a BleakClient that neither mesh_connection nor a pending
\* write refers to; one whose link is still up stays on record, since
\* nothing has disconnected it
Collect(cl, conn, ts) ==
    [h \in 1..Len(cl) |->
        IF \/ cl[h].connected
           \/ h = conn
           \/ \E s \in 1..Len(ts) : Awaited(ts[s]) = h
        THEN cl[h] ELSE Freed]

\* the coroutine s moves on with the outcome r of the code it has run
Resume(s, cl, r) ==
    /\ tasks' = [tasks EXCEPT ![s] = r.task]
    /\ mesh_connection' = r.conn
    /\ clients' = Collect(cl, r.conn, [tasks EXCEPT ![s] = r.task])

Senders == DOMAIN tasks

\* the scans the bearer sees: each device absent or at one of two strengths
BearerScans ==
    LET addresses == {ScanAddress(devices[i].mac_address) : i \in 1..Len(devices)}
        entries == [address : addresses, rssi : {0 - 80, 0 - 40}]
    IN  {scan \in UNION {[1..n -> entries] : n \in 0..Len(devices)} :
            \A i, j \in 1..Len(scan) :
                i # j => scan[i].address # scan[j].address}

\* one caller, its sends one after the other
Init ==
    /\ MacIdle
    /\ CallIdle
    /\ SelectIdle
    /\ devices \in {LocationDevices(n) : n \in 0..MaxDevices}
    /\ mesh_connection = None
    /\ clients = <<>>
    /\ tasks = <<IdleTask>>
    /\ calls_left = <<MaxSends>>
    /\ seq_draws = 0
    /\ links_left = MaxClients
    /\ DirIdle

\* two callers that send at the same time on the same location
InitConcurrent ==
    /\ MacIdle
    /\ CallIdle
    /\ SelectIdle
    /\ devices \in {LocationDevices(n) : n \in 1..MaxDevices}
    /\ mesh_connection = None
    /\ clients = <<>>
    /\ tasks = <<IdleTask, IdleTask>>
    /\ calls_left = <<1, 1>>
    /\ seq_draws = 0
    /\ links_left = MaxClients
    /\ DirIdle

\* the packet of the calls made when only the bearer is looked at:
\* set_brightness(128) on the first device of the location
SamplePacket == BrightnessPacket(DirectoryAvid(1), 128).val

\* the length of its ciphertext: two full chunks
SampleLen == CHOOSE n \in CipherLens : n = 2 * ChunkSize

\* the locals of _send_packet before its loop: csrpacket made with a
\* sequence number from random_seq(), and its two chunks
EnterSend(t, data, seq, n) ==
    LET csrpacket == MakePacket(seq, data, n)
    IN  [t EXCEPT !.packet = data, !.seq = seq, !.csrpacket = csrpacket,
                  !.low_chunk = LowOf(csrpacket), !.high_chunk = HighOf(csrpacket)]

\* _send_packet(data) up to its first await: the packet is encrypted and
\* split, and the first attempt begins
SendPacket(s, data, lens) ==
    /\ seq_draws' = seq_draws + 1
    /\ \E n \in lens :
          Resume(s, clients,
                 Begin(EnterSend([IdleTask EXCEPT !.start_conn = mesh_connection,
                                                  !.counted = tasks[s].counted],
                                 data, seq_draws + 1, n),
                       mesh_connection))

\* _send_packet is called with a packet built before
StartSend(s) ==
    /\ tasks[s].pc \in {"idle", "done"}
    /\ calls_left[s] > 0
    /\ calls_left' = [calls_left EXCEPT ![s] = @ - 1]
    /\ SendPacket(s, SamplePacket, {SampleLen})
    /\ UNCHANGED <<mac_vars, call_vars, sel_vars, devices, dir_vars, links_left>>

\* entity.set_brightness(v) or entity.set_color_temp(v), from the call to
\* the first await: the packet is built, which may raise, and goes to
\* _send_packet
FacadeCall(s) ==
    /\ tasks[s].pc \in {"idle", "done"}
    /\ calls_left[s] > 0
    /\ calls_left' = [calls_left EXCEPT ![s] = @ - 1]
    /\ \E e \in Entities, m \in {"set_brightness", "set_color_temp"} :
          \E v \in IF m = "set_brightness" THEN BrightnessSample ELSE ColorSample :
             LET built == IF m = "set_brightness" THEN BrightnessPacket(e.avid, v)
                          ELSE ColorTempPacket(e.avid, v)
             IN  /\ CallOutcome(e, m, v, built)
                 /\ IF built.ok THEN SendPacket(s, built.val, CipherLens)
                    ELSE UNCHANGED <<mesh_connection, clients, tasks, seq_draws>>
    /\ UNCHANGED <<mac_vars, sel_vars, devices, dir_vars, links_left>>

\* BleakScanner.discover returns (or raises): _priority_devices sorts the
\* devices and _connect starts on the first, if there is one
ScanReturn(s) ==
    /\ tasks[s].pc = "scan"
    /\ \/ \E e \in TransportErrors :
             Resume(s, clients, Except(tasks[s], mesh_connection, e))
       \/ \E order \in {PriorityDevices(devices, scan) : scan \in BearerScans} :
                 IF Len(order) = 0
                 THEN Resume(s, clients, AfterConnect(tasks[s], mesh_connection))
                 ELSE Resume(s, clients,
                             [task |-> IssueConnect(tasks[s], order, 1),
                              conn |-> mesh_connection])
    /\ UNCHANGED <<mac_vars, call_vars, sel_vars, devices, dir_vars, calls_left, seq_draws, links_left>>

\* client.connect() returns: the client becomes mesh_connection and the low
\* write is issued; or it raises: BleakError passes to the next candidate
\* (past the last one _connect returns), anything else leaves _connect
ConnectReturn(s) ==
    /\ tasks[s].pc = "connect"
    /\ LET t == tasks[s] IN
       \/ LET client == [mac_address |-> t.candidates[t.cand].mac_address,
                         rank |-> t.cand, connected |-> TRUE, failed |-> FALSE]
              h == Len(clients) + 1
          IN  /\ links_left > 0
              /\ links_left' = links_left - 1
              /\ Resume(s, Append(clients, client),
                        AfterConnect([t EXCEPT !.ok_seen = TRUE], h))
       \/ \E e \in TransportErrors :
             /\ links_left' = links_left
             /\ IF ConnectCatches(e)
                THEN IF t.cand < Len(t.candidates)
                     THEN Resume(s, clients,
                                 [task |-> IssueConnect(t, t.candidates, t.cand + 1),
                                  conn |-> mesh_connection])
                     ELSE Resume(s, clients, AfterConnect(t, mesh_connection))
                ELSE Resume(s, clients, Except(t, mesh_connection, e))
    /\ UNCHANGED <<mac_vars, call_vars, sel_vars, devices, dir_vars, calls_left, seq_draws>>

\* the link of a client after a write on it failed: it may be down, and it
\* may as well still be up (nothing in the code disconnects it)
AfterFailedWrite(cl, h, link_up) ==
    [cl EXCEPT ![h].connected = @ /\ link_up, ![h].failed = TRUE]

\* the low write returns, and the high write is issued; or it raises
WriteLowReturn(s) ==
    /\ tasks[s].pc = "write_low"
    /\ LET t == tasks[s] IN
       \/ /\ clients[t.low_h].connected
          /\ Resume(s, clients,
                    AfterLow([t EXCEPT !.low = "ok", !.ok_seen = TRUE],
                             mesh_connection))
       \/ \E e \in TransportErrors, link_up \in BOOLEAN :
             Resume(s, AfterFailedWrite(clients, t.low_h, link_up),
                    Except([t EXCEPT !.low = "fail"], mesh_connection, e))
    /\ UNCHANGED <<mac_vars, call_vars, sel_vars, devices, dir_vars, calls_left, seq_draws, links_left>>

\* the high write returns: _send_packet returns True; or it raises
WriteHighReturn(s) ==
    /\ tasks[s].pc = "write_high"
    /\ LET t == tasks[s] IN
       \/ /\ clients[t.high_h].connected
          /\ Resume(s, clients,
                    AfterHigh([t EXCEPT !.high = "ok", !.ok_seen = TRUE],
                              mesh_connection, "ok"))
       \/ \E e \in TransportErrors, link_up \in BOOLEAN :
             Resume(s, AfterFailedWrite(clients, t.high_h, link_up),
                    AfterHigh([t EXCEPT !.high = "fail"], mesh_connection, e))
    /\ UNCHANGED <<mac_vars, call_vars, sel_vars, devices, dir_vars, calls_left, seq_draws, links_left>>

Next ==
    \/ \E s \in Senders : StartSend(s)
    \/ \E s \in Senders : ScanReturn(s)
    \/ \E s \in Senders : ConnectReturn(s)
    \/ \E s \in Senders : WriteLowReturn(s)
    \/ \E s \in Senders : WriteHighReturn(s)

Spec == Init /\ [][Next]_vars

\* the client of a send that went through before, on the first device
EarlierClient ==
    [mac_address |-> devices[1].mac_address, rank |-> 1,
     connected |-> TRUE, failed |-> FALSE]

\* one caller and one send, its calls of connect() and write_gatt_char()
\* counted; the location is disconnected, or connected by an earlier send;
\* a connect can succeed in every attempt
InitTermination ==
    /\ MacIdle
    /\ CallIdle
    /\ SelectIdle
    /\ devices \in {LocationDevices(n) : n \in 0..MaxDevices}
    /\ \/ mesh_connection = None /\ clients = <<>>
       \/ Len(devices) > 0 /\ mesh_connection = 1 /\ clients = <<EarlierClient>>
    /\ tasks = <<[IdleTask EXCEPT !.counted = TRUE]>>
    /\ calls_left = <<1>>
    /\ seq_draws = 0
    /\ links_left = Attempts
    /\ DirIdle

\* every call of the transport that has been awaited returns or raises
TransportAnswers ==
    /\ WF_vars(ScanReturn(1))
    /\ WF_vars(ConnectReturn(1))
    /\ WF_vars(WriteLowReturn(1))
    /\ WF_vars(WriteHighReturn(1))

SpecTermination == InitTermination /\ [][Next]_vars /\ TransportAnswers

\* one caller makes one facade call on a location of one device
InitCall ==
    /\ MacIdle
    /\ CallIdle
    /\ SelectIdle
    /\ devices = LocationDevices(1)
    /\ mesh_connection = None
    /\ clients = <<>>
    /\ tasks = <<IdleTask>>
    /\ calls_left = <<1>>
    /\ seq_draws = 0
    /\ links_left = MaxClients
    /\ DirIdle

NextCall ==
    \/ \E s \in Senders : FacadeCall(s)
    \/ \E s \in Senders : ScanReturn(s)
    \/ \E s \in Senders : ConnectReturn(s)
    \/ \E s \in Senders : WriteLowReturn(s)
    \/ \E s \in Senders : WriteHighReturn(s)

\* a facade call from end to end
SpecCall == InitCall /\ [][NextCall]_vars

SpecConcurrent == InitConcurrent /\ [][Next]_vars

----------------------------------------------------------------------------
(* The claims about the bearer                                             *)

\* C1: a send in which every connect attempt and every write fails (no
\* candidate connects, or the location has no devices) makes exactly 3
\* attempts and returns False, leaving the location disconnected; and no
\* send ever lets an exception reach its caller.
C1_AllFailReturnsFalse ==
    \A s \in Senders :
        LET t == tasks[s]
        IN  /\ t.result # "raised"
            /\ (t.pc = "done" /\ ~t.ok_seen) =>
                   /\ t.result = "False"
                   /\ t.i = Attempts
                   /\ t.scans = IF t.start_conn = None THEN 3 ELSE 2
                   /\ mesh_connection = None

\* a send on a location with two devices, started disconnected, has ended
\* False without one successful connect or write
C1_Witness ==
    \E s \in Senders :
        /\ tasks[s].pc = "done"
        /\ tasks[s].result = "False"
        /\ ~tasks[s].ok_seen
        /\ tasks[s].start_conn = None
        /\ Len(devices) = 2

\* C2: a send that starts disconnected, whose first candidate fails and
\* whose second connects and takes both writes, returns True and keeps
\* that client as mesh_connection; a send that starts with a connection
\* and whose writes have not failed makes no scan, picks no candidates,
\* connects to nothing and writes on that connection only.
C2_ConnectionCached ==
    \A s \in Senders :
        LET t == tasks[s]
        IN  /\ ( /\ t.pc = "done"
                 /\ t.start_conn = None
                 /\ t.low = "ok"
                 /\ t.high = "ok"
                 /\ clients[t.high_h].rank = 2 ) =>
                   /\ t.result = "True"
                   /\ t.low_h = t.high_h
                   /\ mesh_connection = t.high_h
            /\ (t.start_conn # None /\ t.i = 0) =>
                   /\ t.scans = 0
                   /\ t.candidates = <<>>
                   /\ t.pc \in {"write_low", "write_high", "done"}
                   /\ t.low_h = t.start_conn
                   /\ t.high # "none" => t.high_h = t.start_conn
                   /\ mesh_connection = t.start_conn
                   /\ Len(clients) = t.start_conn
                   /\ t.pc = "done" => t.result = "True"

\* a later send has returned True on the client that an earlier send
\* connected as its second candidate, without a scan
C2_Witness ==
    \E s \in Senders :
        /\ tasks[s].pc = "done"
        /\ tasks[s].result = "True"
        /\ tasks[s].start_conn # None
        /\ tasks[s].scans = 0
        /\ clients[tasks[s].start_conn].rank = 2
        /\ tasks[s].high_h = tasks[s].start_conn

\* what C3 says of every state
C3_State ==
    \A s \in Senders :
        LET t == tasks[s]
        IN  /\ t.result = "True" =>
                   (t.low = "ok" /\ t.high = "ok" /\ t.low_h = t.high_h)
            /\ t.high # "none" => t.low = "ok"
            /\ t.pc = "write_high" => (t.low = "ok" /\ t.high = "sent")
            /\ t.pc = "write_low" => (t.low = "sent" /\ t.high = "none")

\* what C3 says of every step in which a high write fails: the attempt is
\* used up and the connection dropped; the send then ends False or starts
\* the next attempt from its scan, with neither half written
C3_Step ==
    \A s \in Senders :
        ( /\ tasks[s].pc = "write_high"
          /\ tasks'[s].pc # "write_high"
          /\ tasks'[s].high # "ok" ) =>
            /\ tasks'[s].i = tasks[s].i + 1
            /\ tasks'[s].result # "True"
            /\ mesh_connection' = None
            /\ \/ tasks'[s].pc = "done" /\ tasks'[s].result = "False"
               \/ /\ tasks'[s].pc = "scan"
                  /\ tasks'[s].low = "none"
                  /\ tasks'[s].high = "none"

\* C3: a send returns True only after the low half and then the high half
\* were written successfully in one attempt on the same client; the high
\* half is never written unless the low half of the same attempt was; and
\* an attempt whose low write succeeds and whose high write fails is a
\* failed attempt, the next one starting over with the low half.
C3_BothHalvesOrFailure == []C3_State /\ [][C3_Step]_vars

\* a send has ended False in an attempt whose low write had succeeded and
\* whose high write failed
C3_Witness ==
    \E s \in Senders :
        /\ tasks[s].pc = "done"
        /\ tasks[s].result = "False"
        /\ tasks[s].low = "ok"
        /\ tasks[s].high = "fail"

\* the clients whose link is up: nothing has disconnected them
LiveClients == {h \in 1..Len(clients) : clients[h].connected}

\* C4: a location has at most one live client at any time: when a new one
\* is established, the one dropped before it has been released.
C4_OneLiveClient == Cardinality(LiveClients) <= 1

\* the coroutine is inside a connect pass
InConnectPass(t) == t.pc \in {"scan", "connect"}

\* C5: concurrent sends on one location are serialized: no two of them are
\* in a connect pass at once; between a send's low and high write nobody
\* drops or replaces its client, so both halves go to the same client; and
\* no two sends have a write pending on the same client.
C5_Serialized ==
    /\ \A s, u \in Senders :
           s # u => ~(InConnectPass(tasks[s]) /\ InConnectPass(tasks[u]))
    /\ \A s \in Senders :
           /\ tasks[s].pc = "write_low" => mesh_connection = tasks[s].low_h
           /\ tasks[s].pc = "write_high" => tasks[s].high_h = tasks[s].low_h
    /\ \A s, u \in Senders :
           (s # u /\ Awaited(tasks[s]) # None) =>
               Awaited(tasks[s]) # Awaited(tasks[u])

----------------------------------------------------------------------------
(* The claims about the bytes on the wire                                  *)

\* C11: every plaintext frame built is exactly 13 bytes long; the
\* ciphertext is split into low = its first 20 bytes and high = the bytes
\* after them, so that low followed by high is the ciphertext and, the
\* ciphertext being 40 bytes, each chunk is 20 bytes (low bytes 0..19, high
\* bytes 20..39); low is written only to the LOW characteristic and high
\* only to the HIGH characteristic.
C11_FrameAndChunks ==
    /\ call_pc = "send" => Len(packet) = 13
    /\ \A s \in Senders :
          LET t == tasks[s]
          IN  t.pc # "idle" =>
                /\ Len(t.packet) = 13
                /\ t.low_chunk \o t.high_chunk = t.csrpacket
                /\ \A k \in 1..Len(t.low_chunk) : t.low_chunk[k] = t.csrpacket[k]
                /\ Len(t.low_chunk) <= 20
                /\ Len(t.low_chunk) < 20 => t.high_chunk = <<>>
                /\ Len(t.csrpacket) = 40 =>
                      /\ Len(t.low_chunk) = 20
                      /\ Len(t.high_chunk) = 20
                      /\ \A k \in 1..20 : t.high_chunk[k] = t.csrpacket[20 + k]
                /\ t.low # "none" => t.low_w = [char |-> "LOW", data |-> t.low_chunk]
                /\ t.low = "none" => t.low_w = NoWrite
                /\ t.high # "none" => t.high_w = [char |-> "HIGH", data |-> t.high_chunk]
                /\ t.high = "none" => t.high_w = NoWrite

\* a colour-temperature call has gone through: its 13-byte frame made a
\* 40-byte ciphertext whose two chunks were written, one to each
\* characteristic
C11_Witness ==
    \E s \in Senders :
        /\ method = "set_color_temp"
        /\ call_pc = "send"
        /\ tasks[s].packet = packet
        /\ tasks[s].result = "True"
        /\ Len(tasks[s].csrpacket) = 40
        /\ tasks[s].low_w.char = "LOW"
        /\ tasks[s].high_w.char = "HIGH"
        /\ Len(tasks[s].high_w.data) = 20

----------------------------------------------------------------------------
(* The directory client: list_devices and the _load_ functions             *)
(*                                                                         *)
(* One action per await of _make_request that returns. The two requests of *)
(* asyncio.gather are both issued before either returns.                   *)

\* the most locations the account holds
MaxLocations == 2

\* the k-th sample entry of "abstract_devices" that is a device
AbstractDevice(k) ==
    [type |-> "device", avid |-> DirectoryAvid(k),
     friendly_mac_address |-> RawMacOf(k)]

\* an entry of "abstract_devices" that is not a device
AbstractOther == [type |-> "other", avid |-> 7, friendly_mac_address |-> <<>>]

\* what the directory may hold for one location
LocationSamples ==
    { [passphrase |-> "secret", abstract_devices |-> <<>>, groups |-> <<>>],
      [passphrase |-> "secret",
       abstract_devices |-> <<AbstractDevice(2), AbstractOther, AbstractDevice(1)>>,
       groups |-> <<[avid |-> 1]>>],
      [passphrase |-> "hunter2",
       abstract_devices |-> <<AbstractDevice(3)>>,
       groups |-> <<[avid |-> 1], [avid |-> 2]>>] }

\* the accounts: the login is accepted or not; the pid of a location is its
\* place in the account
Directories ==
    [credentials : BOOLEAN,
     locations : UNION {[1..n -> LocationSamples] : n \in 0..MaxLocations}]

\* _make_request: POST with a body, GET without; the token goes in the
\* Authorization header when there is one
Request(path, body, token) ==
    [path |-> path, method |-> IF body THEN "POST" ELSE "GET", auth |-> token]

\* what the directory answers to the login
LoginResponse(dir) ==
    IF dir.credentials THEN [credentials |-> [auth_token |-> "token"]]
    ELSE [message |-> "unauthorized"]

\* a plausible slip: the login response is used without being looked at
AfterLoginUnchecked(response) ==
    Returned(IF "credentials" \in DOMAIN response
             THEN response.credentials.auth_token ELSE "none")

\* if "credentials" not in response: raise HaloHomeError; else the token
AfterLogin(response) ==
    IF "credentials" \notin DOMAIN response THEN Raised("HaloHomeError")
    ELSE Returned(response.credentials.auth_token)

\* if raw_device["type"] != "device": continue
IsDevice(raw_device) == raw_device.type = "device"

\* _load_devices, given the response
LoadDevices(raw_devices) ==
    LET kept == SelectSeq(raw_devices, IsDevice)
    IN  [i \in 1..Len(kept) |->
            [device_id |-> kept[i].avid,
             mac_address |-> FormatMac(kept[i].friendly_mac_address)]]

\* _load_groups, given the response
LoadGroups(raw_groups) ==
    [i \in 1..Len(raw_groups) |-> [group_id |-> raw_groups[i].avid]]

\* LocationConnection.__init__: the Device made of each loaded device
DeviceModels(loaded) ==
    [i \in 1..Len(loaded) |->
        [mac_address |-> loaded[i].mac_address, avid |-> loaded[i].device_id]]

DirInit ==
    /\ MacIdle
    /\ CallIdle
    /\ devices = <<>>
    /\ SelectIdle
    /\ BearerIdle
    /\ directory \in Directories
    /\ list_pc = "idle"
    /\ requests = <<>>
    /\ auth_token = "none"
    /\ locations = <<>>
    /\ gather = [pc |-> "idle"]
    /\ list_exc = "none"

\* an exception leaves list_devices
ListFails(e) ==
    /\ list_pc' = "raised"
    /\ list_exc' = e
    /\ UNCHANGED <<requests, auth_token, locations, gather>>

\* the loop of _load_locations: the next location is requested, or the list
\* is returned
NextLocation(loaded, token) ==
    /\ locations' = loaded
    /\ gather' = [pc |-> "idle"]
    /\ IF Len(loaded) < Len(directory.locations)
       THEN /\ list_pc' = "location"
            /\ requests' = Append(requests,
                                  Request(<<"locations", Len(loaded) + 1>>, FALSE, token))
       ELSE /\ list_pc' = "returned"
            /\ requests' = requests

\* list_devices is called: the login request goes out
ListDevices ==
    /\ list_pc = "idle"
    /\ list_pc' = "login"
    /\ requests' = <<Request(<<"sessions">>, TRUE, "none")>>
    /\ UNCHANGED <<auth_token, locations, gather, list_exc>>
    /\ UNCHANGED <<mac_vars, call_vars, devices, sel_vars, bearer_vars, directory>>

\* the login returns: HaloHomeError without credentials, else the locations
\* of the user are requested
LoginReturn ==
    /\ list_pc = "login"
    /\ \/ ListFails("ClientError")
       \/ LET token == AfterLogin(LoginResponse(directory))
          IN  IF token.ok
              THEN /\ auth_token' = token.val
                   /\ list_pc' = "locations"
                   /\ requests' = Append(requests,
                                         Request(<<"user", "locations">>, FALSE, token.val))
                   /\ UNCHANGED <<locations, gather, list_exc>>
              ELSE ListFails(token.exc)
    /\ UNCHANGED <<mac_vars, call_vars, devices, sel_vars, bearer_vars, directory>>

\* "user/locations" returns
LocationsReturn ==
    /\ list_pc = "locations"
    /\ \/ ListFails("ClientError")
       \/ NextLocation(<<>>, auth_token) /\ UNCHANGED <<auth_token, list_exc>>
    /\ UNCHANGED <<mac_vars, call_vars, devices, sel_vars, bearer_vars, directory>>

\* "locations/{pid}" returns: the devices and the groups are requested
LocationReturn ==
    /\ list_pc = "location"
    /\ \/ ListFails("ClientError")
       \/ LET pid == Len(locations) + 1
          IN  /\ list_pc' = "gather"
              /\ gather' = [pc |-> "gather", location_id |-> pid,
                            passphrase |-> directory.locations[pid].passphrase,
                            devices_done |-> FALSE, devices |-> <<>>,
                            groups_done |-> FALSE, groups |-> <<>>]
              /\ requests' = requests \o
                    <<Request(<<"locations", pid, "abstract_devices">>, FALSE, auth_token),
                      Request(<<"locations", pid, "groups">>, FALSE, auth_token)>>
              /\ UNCHANGED <<auth_token, locations, list_exc>>
    /\ UNCHANGED <<mac_vars, call_vars, devices, sel_vars, bearer_vars, directory>>

\* one half of the gather is in: with both, the location is appended
Gathered(g) ==
    IF g.devices_done /\ g.groups_done
    THEN /\ NextLocation(Append(locations,
                                [location_id |-> g.location_id,
                                 passphrase |-> g.passphrase,
                                 devices |-> g.devices, groups |-> g.groups]),
                         auth_token)
         /\ UNCHANGED <<auth_token, list_exc>>
    ELSE /\ gather' = g
         /\ UNCHANGED <<list_pc, requests, auth_token, locations, list_exc>>

\* "locations/{pid}/abstract_devices" returns
DevicesReturn ==
    /\ list_pc = "gather"
    /\ ~gather.devices_done
    /\ \/ ListFails("ClientError")
       \/ Gathered([gather EXCEPT
                      !.devices_done = TRUE,
                      !.devices = LoadDevices(
                          directory.locations[gather.location_id].abstract_devices)])
    /\ UNCHANGED <<mac_vars, call_vars, devices, sel_vars, bearer_vars, directory>>

\* "locations/{pid}/groups" returns
GroupsReturn ==
    /\ list_pc = "gather"
    /\ ~gather.groups_done
    /\ \/ ListFails("ClientError")
       \/ Gathered([gather EXCEPT
                      !.groups_done = TRUE,
                      !.groups = LoadGroups(
                          directory.locations[gather.location_id].groups)])
    /\ UNCHANGED <<mac_vars, call_vars, devices, sel_vars, bearer_vars, directory>>

DirNext ==
    \/ ListDevices
    \/ LoginReturn
    \/ LocationsReturn
    \/ LocationReturn
    \/ DevicesReturn
    \/ GroupsReturn

SpecDirectory == DirInit /\ [][DirNext]_vars

\* the least of a non-empty sequence of avids
MinAvid(avids) ==
    CHOOSE m \in {avids[i] : i \in 1..Len(avids)} :
        \A i \in 1..Len(avids) : m <= avids[i]

\* the avids the directory reports for the devices of a location
ReportedAvids(pid) ==
    LET kept == SelectSeq(directory.locations[pid].abstract_devices, IsDevice)
    IN  [i \in 1..Len(kept) |-> kept[i].avid]

\* C12: for every location loaded, the avids of its Device models are the
\* reported avids shifted by one offset for the location, so that the
\* smallest reported avid becomes 0.
C12_AvidsFromZero ==
    list_pc = "returned" =>
        \A pid \in 1..Len(locations) :
            LET models == DeviceModels(locations[pid].devices)
                reported == ReportedAvids(pid)
            IN  Len(reported) > 0 =>
                   /\ Len(models) = Len(reported)
                   /\ \A i \in 1..Len(models) :
                          models[i].avid = reported[i] - MinAvid(reported)
                   /\ \E i \in 1..Len(models) : models[i].avid = 0

\* C13: when the login response carries no credentials, list_devices
\* raises HaloHomeError at once: the login request is the only request
\* ever issued (no retry; no location, device or group request), and
\* nothing is loaded.
C13_LoginRejected ==
    /\ (~directory.credentials /\ list_pc \notin {"idle", "login"}) =>
           /\ list_pc = "raised"
           /\ list_exc \in {"HaloHomeError", "ClientError"}
    /\ list_exc = "HaloHomeError" =>
           /\ ~directory.credentials
           /\ list_pc = "raised"
           /\ requests = <<Request(<<"sessions">>, TRUE, "none")>>
           /\ auth_token = "none"
           /\ locations = <<>>

\* the login of an account with two locations was rejected
C13_Witness ==
    /\ list_exc = "HaloHomeError"
    /\ list_pc = "raised"
    /\ Len(directory.locations) = 2

----------------------------------------------------------------------------
(* The claims about the connect pass and the life of the connection        *)

\* a step in which a coroutine leaves its connect pass without a new
\* client: it was at the last candidate
C14_Step ==
    \A s \in Senders :
        ( /\ tasks[s].pc = "connect"
          /\ tasks'[s].pc # "connect"
          /\ Len(clients') = Len(clients) ) =>
            tasks[s].cand = Len(tasks[s].candidates)

\* C14: in a connect pass, a candidate that fails to connect, whatever the
\* failure (a BLE error, a timeout, anything else), makes the bearer go on
\* to the next candidate; the pass ends disconnected only when every
\* candidate has been tried, and no single failure reaches the caller.
C14_EveryCandidateTried ==
    /\ [](\A s \in Senders : tasks[s].result # "raised")
    /\ [][C14_Step]_vars

\* what C15 says of every state
C15_State ==
    /\ seq_draws = 0 =>
           /\ mesh_connection = None
           /\ clients = <<>>
           /\ \A s \in Senders : tasks[s].pc = "idle" /\ tasks[s].scans = 0
    /\ mesh_connection # None => ~clients[mesh_connection].failed
    /\ \A s \in Senders :
           LET t == tasks[s]
           IN  /\ Awaited(t) # None => ~clients[Awaited(t)].failed
               /\ t.result = "False" => mesh_connection = None
               /\ (t.pc # "idle" /\ t.start_conn = None) => t.scans >= 1
               /\ t.pc \in {"write_low", "write_high"} =>
                      t.scans = t.i + (IF t.start_conn = None THEN 1 ELSE 0)

\* what C15 says of every step in which a write fails: the connection is
\* dropped in that step, and the coroutine is in a new scan or has
\* returned False
C15_Step ==
    \A s \in Senders :
        ( \/ tasks[s].pc = "write_low" /\ tasks'[s].pc # "write_high"
          \/ tasks[s].pc = "write_high" /\ tasks'[s].result # "True" ) =>
            /\ clients'[Awaited(tasks[s])].failed
            /\ mesh_connection' = None
            /\ \/ tasks'[s].pc = "done" /\ tasks'[s].result = "False"
               \/ tasks'[s].pc = "scan" /\ tasks'[s].scans = tasks[s].scans + 1

\* C15: a location is disconnected from construction until its first send,
\* with no scan or connect before; after any write failure the connection
\* is dropped before the next step and no write is ever issued again on
\* the client that failed; the next attempt, or the next send, then runs a
\* new scan and connect pass; whenever a send returns False the location
\* is left disconnected.
C15_Lifecycle == []C15_State /\ [][C15_Step]_vars

\* after a write failed on a client whose link stayed up, the send is
\* writing on another client, connected by a later pass
C15_Witness ==
    \E s \in Senders, h \in 1..Len(clients) :
        /\ clients[h].failed
        /\ clients[h].connected
        /\ tasks[s].pc = "write_high"
        /\ tasks[s].i >= 1
        /\ mesh_connection = tasks[s].high_h
        /\ mesh_connection # h

----------------------------------------------------------------------------
(* The claims about the cost of a send                                     *)

\* what C16 says of every state
C16_State ==
    \A s \in Senders :
        LET t == tasks[s]
        IN  /\ t.i <= 3
            /\ t.scans <= 3
            /\ t.connects <= 3 * Len(devices)
            /\ t.writes <= 6
            /\ t.result \in {"none", "True", "False"}
            /\ t.pc = "done" => t.result \in {"True", "False"}

\* what C16 says of every step in which a connect pass ends with the
\* location still disconnected: no write is issued
C16_Step ==
    \A s \in Senders :
        ( /\ tasks[s].pc \in {"scan", "connect"}
          /\ tasks'[s].pc # "connect"
          /\ Len(clients') = Len(clients) ) =>
            /\ tasks'[s].writes = tasks[s].writes
            /\ tasks'[s].pc \in {"scan", "done"}
            /\ tasks'[s].low = "none"
            /\ mesh_connection' = None

\* C16: provided every scan, connect and write that is awaited returns or
\* fails, a send ends with True or False after at most 3 attempts: at most
\* 3 scans, at most 3 x (number of devices) connect attempts and at most 6
\* writes; an attempt whose connect pass leaves the location disconnected
\* issues no write.
C16_Terminates ==
    /\ []C16_State
    /\ [][C16_Step]_vars
    /\ (tasks[1].pc \notin {"idle", "done"}) ~> (tasks[1].pc = "done")

\* a send on two devices has ended False at the limits: 3 scans, 6 connect
\* attempts and 6 writes
C16_Witness ==
    /\ Len(devices) = 2
    /\ tasks[1].pc = "done"
    /\ tasks[1].result = "False"
    /\ tasks[1].scans = 3
    /\ tasks[1].connects = 6
    /\ tasks[1].writes = 6

\* what C17 says of every state: the chunks are those of the one
\* ciphertext made with the sequence number of the send, which is the last
\* one drawn, and one number has been drawn per send
C17_State ==
    /\ seq_draws + calls_left[1] = MaxSends
    /\ \A s \in Senders :
          LET t == tasks[s]
              made == MakePacket(seq_draws, t.packet, Len(t.csrpacket))
          IN  t.pc # "idle" =>
                /\ t.seq = seq_draws
                /\ t.csrpacket = made
                /\ t.low_chunk = LowOf(made)
                /\ t.high_chunk = HighOf(made)
                /\ t.low_w \in {NoWrite, [char |-> "LOW", data |-> LowOf(made)]}
                /\ t.high_w \in {NoWrite, [char |-> "HIGH", data |-> HighOf(made)]}

\* what C17 says of every step: while a send runs, through its retries
\* and reconnects, its sequence number, ciphertext and chunks stay and no
\* number is drawn; a number is drawn only in the step that starts a send
C17_Step ==
    \A s \in Senders :
        /\ tasks[s].pc \notin {"idle", "done"} =>
               /\ seq_draws' = seq_draws
               /\ tasks'[s].seq = tasks[s].seq
               /\ tasks'[s].csrpacket = tasks[s].csrpacket
               /\ tasks'[s].low_chunk = tasks[s].low_chunk
               /\ tasks'[s].high_chunk = tasks[s].high_chunk
        /\ seq_draws' # seq_draws =>
               /\ seq_draws' = seq_draws + 1
               /\ calls_left'[s] = calls_left[s] - 1
               /\ tasks'[s].seq = seq_draws'
               /\ tasks'[s].i = 0

\* C17: one send encrypts its packet once, with one sequence number: every
\* attempt of the send writes the same low and high chunks, across
\* reconnects and bearer devices, and a new sequence number is drawn only
\* by the next send.
C17_OneEncryptionPerSend == []C17_State /\ [][C17_Step]_vars

\* the second send, after a write failed on one device, is writing the
\* high chunk of its one ciphertext on another device
C17_Witness ==
    \E s \in Senders, h \in 1..Len(clients) :
        /\ seq_draws = 2
        /\ tasks[s].seq = 2
        /\ tasks[s].i >= 1
        /\ tasks[s].pc = "write_high"
        /\ clients[h].failed
        /\ clients[h].connected
        /\ clients[h].mac_address # clients[tasks[s].high_h].mac_address
        /\ tasks[s].high_w.data = HighOf(tasks[s].csrpacket)

====
